---- MODULE Spec2Model ----
(***************************************************************************)
(* Settings loader of semantic_kernel.utils.settings: one accessor per     *)
(* external service reads the configuration file ".env", checks the keys   *)
(* it requires and returns a tuple or a dict of their values.              *)
(*                                                                         *)
(* Text is a sequence of characters, a character is its Unicode code point *)
(* (ord(c) in Python), so that startswith, split, join and strip are       *)
(* computed character by character as Python computes them and every       *)
(* character of a str can be written. The configuration file is either     *)
(* missing or holds such a text; the environment of the process maps names *)
(* to texts.                                                               *)
(***************************************************************************)
EXTENDS Integers, Sequences, FiniteSets, TLC

VARIABLES env, os_environ, pc, call, ret

vars == <<env, os_environ, pc, call, ret>>

\* ------------------------------------------------------------------ bounds
\* Longest value body (characters between the quotes) written in a file.
MaxBody == 2
\* Most double quotes written on either side of a value body.
MaxQuotes == 2

\* -------------------------------------------------------- the keys read
\* Each key is the text of its own name: OPENAI_API_KEY is "OPENAI_API_KEY",
\* character by character ("A" is 65, "Z" is 90, "_" is 95).
OPENAI_API_KEY == <<79, 80, 69, 78, 65, 73, 95, 65, 80, 73, 95, 75, 69, 89>>
OPENAI_ORG_ID == <<79, 80, 69, 78, 65, 73, 95, 79, 82, 71, 95, 73, 68>>
AZURE_OPENAI_DEPLOYMENT_NAME == <<65, 90, 85, 82, 69, 95, 79, 80, 69, 78, 65, 73, 95, 68, 69, 80, 76, 79, 89, 77, 69, 78, 84, 95, 78, 65, 77, 69>>
AZURE_OPENAI_API_KEY == <<65, 90, 85, 82, 69, 95, 79, 80, 69, 78, 65, 73, 95, 65, 80, 73, 95, 75, 69, 89>>
AZURE_OPENAI_ENDPOINT == <<65, 90, 85, 82, 69, 95, 79, 80, 69, 78, 65, 73, 95, 69, 78, 68, 80, 79, 73, 78, 84>>
AZURE_OPENAI_API_VERSION == <<65, 90, 85, 82, 69, 95, 79, 80, 69, 78, 65, 73, 95, 65, 80, 73, 95, 86, 69, 82, 83, 73, 79, 78>>
POSTGRES_CONNECTION_STRING == <<80, 79, 83, 84, 71, 82, 69, 83, 95, 67, 79, 78, 78, 69, 67, 84, 73, 79, 78, 95, 83, 84, 82, 73, 78, 71>>
PINECONE_API_KEY == <<80, 73, 78, 69, 67, 79, 78, 69, 95, 65, 80, 73, 95, 75, 69, 89>>
PINECONE_ENVIRONMENT == <<80, 73, 78, 69, 67, 79, 78, 69, 95, 69, 78, 86, 73, 82, 79, 78, 77, 69, 78, 84>>
ASTRADB_APP_TOKEN == <<65, 83, 84, 82, 65, 68, 66, 95, 65, 80, 80, 95, 84, 79, 75, 69, 78>>
ASTRADB_ID == <<65, 83, 84, 82, 65, 68, 66, 95, 73, 68>>
ASTRADB_REGION == <<65, 83, 84, 82, 65, 68, 66, 95, 82, 69, 71, 73, 79, 78>>
ASTRADB_KEYSPACE == <<65, 83, 84, 82, 65, 68, 66, 95, 75, 69, 89, 83, 80, 65, 67, 69>>
WEAVIATE_API_KEY == <<87, 69, 65, 86, 73, 65, 84, 69, 95, 65, 80, 73, 95, 75, 69, 89>>
WEAVIATE_URL == <<87, 69, 65, 86, 73, 65, 84, 69, 95, 85, 82, 76>>
BING_API_KEY == <<66, 73, 78, 71, 95, 65, 80, 73, 95, 75, 69, 89>>
MONGODB_ATLAS_CONNECTION_STRING == <<77, 79, 78, 71, 79, 68, 66, 95, 65, 84, 76, 65, 83, 95, 67, 79, 78, 78, 69, 67, 84, 73, 79, 78, 95, 83, 84, 82, 73, 78, 71>>
GOOGLE_PALM_API_KEY == <<71, 79, 79, 71, 76, 69, 95, 80, 65, 76, 77, 95, 65, 80, 73, 95, 75, 69, 89>>
AZCOSMOS_API == <<65, 90, 67, 79, 83, 77, 79, 83, 95, 65, 80, 73>>
AZCOSMOS_CONNSTR == <<65, 90, 67, 79, 83, 77, 79, 83, 95, 67, 79, 78, 78, 83, 84, 82>>
REDIS_CONNECTION_STRING == <<82, 69, 68, 73, 83, 95, 67, 79, 78, 78, 69, 67, 84, 73, 79, 78, 95, 83, 84, 82, 73, 78, 71>>
AZURE_AISEARCH_API_KEY == <<65, 90, 85, 82, 69, 95, 65, 73, 83, 69, 65, 82, 67, 72, 95, 65, 80, 73, 95, 75, 69, 89>>
AZURE_AISEARCH_URL == <<65, 90, 85, 82, 69, 95, 65, 73, 83, 69, 65, 82, 67, 72, 95, 85, 82, 76>>
AZURE_AISEARCH_INDEX_NAME == <<65, 90, 85, 82, 69, 95, 65, 73, 83, 69, 65, 82, 67, 72, 95, 73, 78, 68, 69, 88, 95, 78, 65, 77, 69>>
AZURE_KEY_VAULT_ENDPOINT == <<65, 90, 85, 82, 69, 95, 75, 69, 89, 95, 86, 65, 85, 76, 84, 95, 69, 78, 68, 80, 79, 73, 78, 84>>
AZURE_KEY_VAULT_CLIENT_ID == <<65, 90, 85, 82, 69, 95, 75, 69, 89, 95, 86, 65, 85, 76, 84, 95, 67, 76, 73, 69, 78, 84, 95, 73, 68>>
AZURE_KEY_VAULT_CLIENT_SECRET == <<65, 90, 85, 82, 69, 95, 75, 69, 89, 95, 86, 65, 85, 76, 84, 95, 67, 76, 73, 69, 78, 84, 95, 83, 69, 67, 82, 69, 84>>
BOOKING_SAMPLE_CLIENT_ID == <<66, 79, 79, 75, 73, 78, 71, 95, 83, 65, 77, 80, 76, 69, 95, 67, 76, 73, 69, 78, 84, 95, 73, 68>>
BOOKING_SAMPLE_TENANT_ID == <<66, 79, 79, 75, 73, 78, 71, 95, 83, 65, 77, 80, 76, 69, 95, 84, 69, 78, 65, 78, 84, 95, 73, 68>>
BOOKING_SAMPLE_CLIENT_SECRET == <<66, 79, 79, 75, 73, 78, 71, 95, 83, 65, 77, 80, 76, 69, 95, 67, 76, 73, 69, 78, 84, 95, 83, 69, 67, 82, 69, 84>>

\* ------------------------------------------------- Python values and str
\* Optional[str]: None, or a str holding a text.
None == [isNone |-> TRUE, str |-> <<>>]
Str(s) == [isNone |-> FALSE, str |-> s]

\* bool(x) of an Optional[str]: None and "" are falsy.
Truthy(x) == ~x.isNone /\ x.str # <<>>

\* x or y
Or(x, y) == IF Truthy(x) THEN x ELSE y

\* The characters the code names: "\n", "\r", '"', "'", "=", "#", "$", "\",
\* " ", "_", "{", "}", ":", "-".
NL == 10
CR == 13
QUOTE == 34
APOS == 39
EQ == 61
HASH == 35
DOLLAR == 36
BACKSLASH == 92
SPACE == 32
UNDERSCORE == 95
LBRACE == 123
RBRACE == 125
COLON == 58
HYPHEN == 45
\* The characters an escape names: "\a", "\b", "\t", "\v", "\f".
BEL == 7
BS == 8
TAB == 9
VT == 11
FF == 12
\* The letters and digits the files and the escapes are written with.
Letter ==
    [a |-> 97, b |-> 98, e |-> 101, f |-> 102, n |-> 110, o |-> 111, p |-> 112,
     r |-> 114, t |-> 116, v |-> 118, x |-> 120]
Digit(d) == 48 + d
\* Two characters outside ASCII: U+2003 EM SPACE, which is whitespace, and
\* U+00E9, a letter.
EM_SPACE == 8195
E_ACUTE == 233

\* Characters str.strip() removes, and the regular expression class \s of a
\* str pattern: the characters of str.isspace(). These are U+0009 to U+000D,
\* U+001C to U+0020, U+0085, U+00A0, U+1680, U+2000 to U+200A, U+2028,
\* U+2029, U+202F, U+205F and U+3000.
Whitespace ==
    (9..13) \cup (28..32) \cup {133, 160, 5760} \cup (8192..8202)
    \cup {8232, 8233, 8239, 8287, 12288}
\* The regular expression class [\r\n].
LineEnd == {NL, CR}
\* The regular expression class [^\S\r\n]: whitespace within a line.
Blank == Whitespace \ LineEnd

\* First index j >= i with s[j] outside cs; Len(s)+1 when there is none.
RECURSIVE SkipWhile(_, _, _)
SkipWhile(s, i, cs) ==
    IF i > Len(s) \/ s[i] \notin cs THEN i ELSE SkipWhile(s, i + 1, cs)

\* First index j >= i with s[j] in cs; Len(s)+1 when there is none.
RECURSIVE SkipUntil(_, _, _)
SkipUntil(s, i, cs) ==
    IF i > Len(s) \/ s[i] \in cs THEN i ELSE SkipUntil(s, i + 1, cs)

\* Last index j <= i with s[j] outside cs; 0 when there is none.
RECURSIVE BackWhile(_, _, _)
BackWhile(s, i, cs) ==
    IF i < 1 \/ s[i] \notin cs THEN i ELSE BackWhile(s, i - 1, cs)

\* s.startswith(p)
StartsWith(s, p) == Len(s) >= Len(p) /\ SubSeq(s, 1, Len(p)) = p

\* s.startswith(p, i - 1): p stands in s from position i on.
StartsWithAt(s, i, p) == Len(s) >= i + Len(p) - 1 /\ SubSeq(s, i, i + Len(p) - 1) = p

\* s.strip(cs): every leading and every trailing character of cs is removed.
StripChars(s, cs) ==
    LET a == SkipWhile(s, 1, cs)
        b == BackWhile(s, Len(s), cs)
    IN IF a > b THEN <<>> ELSE SubSeq(s, a, b)

\* s.rstrip()
RStrip(s) == SubSeq(s, 1, BackWhile(s, Len(s), Whitespace))

\* s.split(sep) for a one-character sep: the pieces between the separators.
RECURSIVE Split(_, _)
Split(s, sep) ==
    LET j == SkipUntil(s, 1, {sep})
    IN IF j > Len(s) THEN <<s>>
       ELSE <<SubSeq(s, 1, j - 1)>> \o Split(SubSeq(s, j + 1, Len(s)), sep)

\* sep.join(parts)
RECURSIVE Join(_, _)
Join(sep, parts) ==
    IF parts = <<>> THEN <<>>
    ELSE IF Len(parts) = 1 THEN parts[1]
    ELSE parts[1] \o <<sep>> \o Join(sep, Tail(parts))

\* What a read of a file opened in text mode gives for the text written in
\* it (universal newlines): "\r\n" and a lone "\r" become "\n".
UniversalNewlines(text) ==
    IF \A p \in 1..Len(text) : text[p] # CR THEN text
    ELSE LET Kept(p) == ~(text[p] = NL /\ p > 1 /\ text[p - 1] = CR)
             kept == SelectSeq([p \in 1..Len(text) |-> p], Kept)
         IN [j \in 1..Len(kept) |-> IF text[kept[j]] = CR THEN NL ELSE text[kept[j]]]

\* The lines of a text that holds no "\r", each with its line end.
RECURSIVE Lines(_)
Lines(text) ==
    IF text = <<>> THEN <<>>
    ELSE LET j == SkipUntil(text, 1, {NL})
         IN IF j >= Len(text) THEN <<text>>
            ELSE <<SubSeq(text, 1, j)>> \o Lines(SubSeq(text, j + 1, Len(text)))

\* open(".env", "r") and f.readlines() on a file that holds `text`.
ReadLines(text) == Lines(UniversalNewlines(text))

\* "=".join(line.split("=")[1:]).strip().strip('"')
LineValue(line) ==
    LET parts == Tail(Split(line, EQ))
    IN StripChars(StripChars(Join(EQ, parts), Whitespace), {QUOTE})

\* The for loop of the line scanners: each line is given to the first key of
\* `keys` it starts with (the later tests are skipped by `continue`), and a
\* key keeps the value of the last line given to it. `vals` holds the values
\* so far, None before the loop.
RECURSIVE ScanLines(_, _, _)
ScanLines(lines, keys, vals) ==
    IF lines = <<>> THEN vals
    ELSE LET line == Head(lines)
             hits == {i \in 1..Len(keys) : StartsWith(line, keys[i])}
             first == CHOOSE i \in hits : \A j \in hits : i <= j
         IN ScanLines(Tail(lines), keys,
                      IF hits = {} THEN vals
                      ELSE [vals EXCEPT ![first] = Str(LineValue(line))])

\* --------------------------------------------- dotenv_values (python-dotenv)
\* The file as the accessors find it: missing, or holding a text.
NoFile == [exists |-> FALSE, text |-> <<>>]
File(text) == [exists |-> TRUE, text |-> text]

\* One step of the parser at the reader: it reads a value (a key, a value,
\* nothing) and moves the reader to position `next`, or its pattern does not
\* match (Error is raised) and the reader stays at position `next`.
Read(value, next) == [failed |-> FALSE, value |-> value, next |-> next]
Failed(next) == [failed |-> TRUE, value |-> None, next |-> next]

\* _single_quoted_key at position i2, its closing quote at position c.
QuotedKey(t, i2, c) ==
    IF c > Len(t) \/ c = i2 + 1 THEN Failed(i2)
    ELSE Read(Str(SubSeq(t, i2 + 1, c - 1)), c + 1)

\* _unquoted_key at position i2, the key ending before position c.
UnquotedKey(t, i2, c) ==
    IF c = i2 THEN Failed(i2) ELSE Read(Str(SubSeq(t, i2, c - 1)), c)

\* parse_key at position i2: no key for a comment, a key in single quotes,
\* or an unquoted key.
parse_key(t, i2) ==
    IF i2 <= Len(t) /\ t[i2] = HASH THEN Read(None, i2)
    ELSE IF i2 <= Len(t) /\ t[i2] = APOS
    THEN QuotedKey(t, i2, SkipUntil(t, i2 + 1, {APOS}))
    ELSE UnquotedKey(t, i2, SkipUntil(t, i2, {EQ, HASH} \cup Whitespace))

\* The characters an escape may name (_double_quote_escapes,
\* _single_quote_escapes) and the character codecs.decode gives for each.
DoubleQuoteEscapes ==
    {BACKSLASH, APOS, QUOTE, Letter.a, Letter.b, Letter.f, Letter.n, Letter.r, Letter.t, Letter.v}
SingleQuoteEscapes == {BACKSLASH, APOS}
Escapes(q) == IF q = QUOTE THEN DoubleQuoteEscapes ELSE SingleQuoteEscapes
Decoded(c) ==
    CASE c = Letter.a -> BEL
      [] c = Letter.b -> BS
      [] c = Letter.f -> FF
      [] c = Letter.n -> NL
      [] c = Letter.r -> CR
      [] c = Letter.t -> TAB
      [] c = Letter.v -> VT
      [] OTHER -> c

\* decode_escapes: each backslash followed by a character of cs is replaced
\* by the character the pair names, from left to right (from position p on).
RECURSIVE DecodeFrom(_, _, _)
DecodeFrom(s, p, cs) ==
    IF p > Len(s) THEN <<>>
    ELSE IF s[p] = BACKSLASH /\ p < Len(s) /\ s[p + 1] \in cs
    THEN <<Decoded(s[p + 1])>> \o DecodeFrom(s, p + 2, cs)
    ELSE <<s[p]>> \o DecodeFrom(s, p + 1, cs)
decode_escapes(cs, s) == DecodeFrom(s, 1, cs)

\* The quote that closes a value opened by the quote q, looked for from
\* position p on (_double_quoted_value, _single_quoted_value): the first q
\* that no backslash escapes; when there is none, the last escaped q, esc,
\* which the match falls back to; 0 when there is neither.
RECURSIVE ClosingQuote(_, _, _, _)
ClosingQuote(t, p, q, esc) ==
    IF p > Len(t) THEN esc
    ELSE IF t[p] = q THEN p
    ELSE IF t[p] = BACKSLASH /\ p < Len(t) /\ t[p + 1] = q
    THEN ClosingQuote(t, p + 2, q, p + 1)
    ELSE ClosingQuote(t, p + 1, q, esc)

\* A quoted value that opens at position i4 and closes at position close
\* (0: it does not close), its escapes decoded.
QuotedValue(t, i4, close) ==
    IF close = 0 THEN Failed(i4)
    ELSE Read(Str(decode_escapes(Escapes(t[i4]), SubSeq(t, i4 + 1, close - 1))), close + 1)

\* re.sub(r"\s+#.*", "", part): an unquoted value ends before the first
\* whitespace that a "#" follows.
RECURSIVE CutComment(_, _)
CutComment(part, i) ==
    IF i > Len(part) THEN part
    ELSE IF part[i] \in Whitespace
              /\ LET j == SkipWhile(part, i, Whitespace)
                 IN j <= Len(part) /\ part[j] = HASH
         THEN SubSeq(part, 1, i - 1)
         ELSE CutComment(part, i + 1)

\* parse_unquoted_value: from position i4 to the end e of the line, without
\* a comment, right-stripped.
parse_unquoted_value(t, i4, e) == Read(Str(RStrip(CutComment(SubSeq(t, i4, e - 1), 1))), e)

\* parse_value at position i4.
parse_value(t, i4) ==
    IF i4 > Len(t) \/ t[i4] \in LineEnd THEN Read(Str(<<>>), i4)
    ELSE IF t[i4] \in {QUOTE, APOS} THEN QuotedValue(t, i4, ClosingQuote(t, i4 + 1, t[i4], 0))
    ELSE parse_unquoted_value(t, i4, SkipUntil(t, i4, LineEnd))

\* After the key and the blanks behind it, at position i3: "=", the blanks
\* behind it (_equal_sign) and a value, or no value.
ValueAfterKey(t, i3) ==
    IF i3 <= Len(t) /\ t[i3] = EQ THEN parse_value(t, SkipWhile(t, i3 + 1, Blank))
    ELSE Read(None, i3)

\* _comment at position i5, a "#" standing at position c behind the blanks
\* that follow i5 or not: the position after the comment.
Comment(t, i5, c) == IF c <= Len(t) /\ t[c] = HASH THEN SkipUntil(t, c, LineEnd) ELSE i5

\* _end_of_line at position i6, the blanks that follow it ending before e.
EndOfLine(t, i6, e) ==
    IF e > Len(t) THEN Read(None, Len(t) + 1)
    ELSE IF t[e] = CR /\ e < Len(t) /\ t[e + 1] = NL THEN Read(None, e + 2)
    ELSE IF t[e] \in LineEnd THEN Read(None, e + 1)
    ELSE Failed(i6)

\* _comment and _end_of_line behind a value that ends before position i5.
EndOfBinding(t, i5) ==
    EndOfLine(t, Comment(t, i5, SkipWhile(t, i5, Blank)),
              SkipWhile(t, Comment(t, i5, SkipWhile(t, i5, Blank)), Blank))

\* One binding read by the parser: its key (None for a blank or comment line
\* and for a line that does not parse), its value (None for a key without
\* "="), and the position after it.
Binding(key, value, next) == [key |-> key, value |-> value, next |-> next]

\* except Error: after a failed match with the reader at position p the
\* parser skips the rest of the line (_rest_of_line) and binds no key.
RestOfLine(t, e) == Binding(None, None, IF e > Len(t) THEN Len(t) + 1 ELSE e + 1)
ErrorBinding(t, p) == RestOfLine(t, SkipUntil(t, p, LineEnd))

\* _export at position i1: the position after "export" and the blanks behind
\* it when both are there, position i1 otherwise.
EXPORT == <<Letter.e, Letter.x, Letter.p, Letter.o, Letter.r, Letter.t>>
SkipExport(t, i1) ==
    IF StartsWithAt(t, i1, EXPORT) /\ SkipWhile(t, i1 + 6, Blank) > i1 + 6
    THEN SkipWhile(t, i1 + 6, Blank)
    ELSE i1

\* The steps of parse_binding in turn: with the end of the line e read, ...
WithEnd(t, key, value, e) ==
    IF e.failed THEN ErrorBinding(t, e.next) ELSE Binding(key, value, e.next)

\* ... with the value v read, ...
WithValue(t, key, v) ==
    IF v.failed THEN ErrorBinding(t, v.next)
    ELSE WithEnd(t, key, v.value, EndOfBinding(t, v.next))

\* ... and with the key k read.
WithKey(t, k) ==
    IF k.failed THEN ErrorBinding(t, k.next)
    ELSE WithValue(t, k.value, ValueAfterKey(t, SkipWhile(t, k.next, Blank)))

\* The binding that starts at position i1, after leading whitespace: none at
\* the end of the text.
BindingAt(t, i1) ==
    IF i1 > Len(t) THEN Binding(None, None, Len(t) + 1)
    ELSE WithKey(t, parse_key(t, SkipExport(t, i1)))

\* parse_binding with the reader at position i0 of the text t.
parse_binding(t, i0) == BindingAt(t, SkipWhile(t, i0, Whitespace))

\* The bindings that follow the binding b, b first when it binds a key.
RECURSIVE parse_stream(_, _)
Bindings(t, b) ==
    (IF b.key.isNone THEN <<>> ELSE <<[key |-> b.key.str, value |-> b.value]>>)
    \o parse_stream(t, b.next)

\* parse_stream and DotEnv.parse: the bindings of the text from position i
\* on, in order, without those that bind no key.
parse_stream(t, i) == IF i > Len(t) THEN <<>> ELSE Bindings(t, parse_binding(t, i))

\* config.get(key, None): the value of the last binding of the key.
RECURSIVE Get(_, _)
Get(config, key) ==
    IF config = <<>> THEN None
    ELSE LET b == config[Len(config)]
         IN IF b.key = key THEN b.value
            ELSE Get(SubSeq(config, 1, Len(config) - 1), key)

\* key in config
Has(config, key) == \E i \in 1..Len(config) : config[i].key = key

\* A match of _posix_variable, ${name} or ${name:-default}: its name, its
\* default (None without one) and the position after it.
NoVariable == [matched |-> FALSE, name |-> <<>>, default |-> None, end |-> 0]
Variable(name, default, end) ==
    [matched |-> TRUE, name |-> name, default |-> default, end |-> end]

\* The default that opens behind ":-" at position n and ends before the "}"
\* at position d.
DefaultAt(v, p, n, d) ==
    IF d > Len(v) THEN NoVariable
    ELSE Variable(SubSeq(v, p + 2, n - 1), Str(SubSeq(v, n + 2, d - 1)), d + 1)

\* The name that opens behind "${" at position p and ends before position n.
NameAt(v, p, n) ==
    IF n > Len(v) THEN NoVariable
    ELSE IF v[n] = RBRACE THEN Variable(SubSeq(v, p + 2, n - 1), None, n + 1)
    ELSE IF n < Len(v) /\ v[n + 1] = HYPHEN THEN DefaultAt(v, p, n, SkipUntil(v, n + 2, {RBRACE}))
    ELSE NoVariable

\* _posix_variable matched at position p of the value v.
VariableAt(v, p) ==
    IF p < Len(v) /\ v[p] = DOLLAR /\ v[p + 1] = LBRACE
    THEN NameAt(v, p, SkipUntil(v, p + 2, {RBRACE, COLON}))
    ELSE NoVariable

\* Variable.resolve in the environment of resolve_variables with override:
\* os.environ updated by the values of the file resolved so far. A name
\* bound without a value gives "", an unbound name its default or "".
Resolve(m, new_values, environ) ==
    IF Has(new_values, m.name)
    THEN (IF Get(new_values, m.name).isNone THEN <<>> ELSE Get(new_values, m.name).str)
    ELSE IF m.name \in DOMAIN environ THEN environ[m.name]
    ELSE IF m.default.isNone THEN <<>>
    ELSE m.default.str

\* parse_variables and the join of the resolved atoms, from position p of
\* the value v on; d is the position of the next "$". The text between two
\* matches is a literal.
RECURSIVE ResolveValue(_, _, _, _)
ResolveFrom(v, p, d, new_values, environ) ==
    IF d > Len(v) THEN SubSeq(v, p, Len(v))
    ELSE IF VariableAt(v, d).matched
    THEN SubSeq(v, p, d - 1) \o Resolve(VariableAt(v, d), new_values, environ)
         \o ResolveValue(v, VariableAt(v, d).end, new_values, environ)
    ELSE SubSeq(v, p, d) \o ResolveValue(v, d + 1, new_values, environ)
ResolveValue(v, p, new_values, environ) ==
    ResolveFrom(v, p, SkipUntil(v, p, {DOLLAR}), new_values, environ)

\* resolve_variables: the bindings in order, each value resolved with the
\* values resolved before it.
RECURSIVE resolve_variables(_, _, _)
resolve_variables(values, new_values, environ) ==
    IF values = <<>> THEN new_values
    ELSE resolve_variables(
             Tail(values),
             new_values \o
                 <<[key |-> Head(values).key,
                    value |-> IF Head(values).value.isNone THEN None
                              ELSE Str(ResolveValue(Head(values).value.str, 1,
                                                    new_values, environ))]>>,
             environ)

\* dotenv_values(".env") in the environment environ: the bindings of the
\* file, read in text mode, with their variables resolved; none for a
\* missing file.
dotenv_values(e, environ) ==
    IF e.exists
    THEN resolve_variables(parse_stream(UniversalNewlines(e.text), 1), <<>>, environ)
    ELSE <<>>


\* ------------------------------------------------------- outcomes of a call
\* A call returns a value (a str, a tuple of Optional[str] or a dict) or
\* raises; `kind` is "ok" or the class of the exception raised.
Ok(v) == [kind |-> "ok", val |-> v, msg |-> ""]
Raise(kind, msg) == [kind |-> kind, val |-> <<>>, msg |-> msg]

\* assert cond, msg
AssertionError(msg) == Raise("AssertionError", msg)

\* open(".env", "r") of a missing file
FileNotFoundError == Raise("FileNotFoundError", ".env")

\* (a, b, ...) = value, with n targets, of the outcome r of a call that
\* returns a tuple: an exception of the call propagates, a tuple of another
\* length raises ValueError.
Unpack(r, n) ==
    IF r.kind # "ok" THEN r
    ELSE IF Len(r.val) # n THEN Raise("ValueError", "unpack")
    ELSE r

\* ------------------------------------------------------------ the accessors
\* The accessor as it would be with the organization ID asserted as well.
openai_settings_org_id_required(e, environ) ==
    LET config == dotenv_values(e, environ)
        api_key == Get(config, OPENAI_API_KEY)
        org_id == Get(config, OPENAI_ORG_ID)
    IN IF ~Truthy(api_key) THEN AssertionError("OpenAI API key not found in .env file")
       ELSE IF ~Truthy(org_id) THEN AssertionError("OpenAI organization ID not found in .env file")
       ELSE Ok(<<api_key, org_id>>)

openai_settings_from_dot_env(e, environ) ==
    LET config == dotenv_values(e, environ)
        api_key == Get(config, OPENAI_API_KEY)
        org_id == Get(config, OPENAI_ORG_ID)
    IN IF ~Truthy(api_key) THEN AssertionError("OpenAI API key not found in .env file")
       ELSE Ok(<<api_key, org_id>>)

azure_openai_settings_from_dot_env(e, environ, include_deployment, include_api_version) ==
    LET config == dotenv_values(e, environ)
        deployment == Get(config, AZURE_OPENAI_DEPLOYMENT_NAME)
        api_key == Get(config, AZURE_OPENAI_API_KEY)
        endpoint == Get(config, AZURE_OPENAI_ENDPOINT)
        api_version == Get(config, AZURE_OPENAI_API_VERSION)
    IN IF include_deployment /\ deployment.isNone
       THEN AssertionError("Azure OpenAI deployment name not found in .env file")
       ELSE IF include_api_version /\ api_version.isNone
       THEN AssertionError("Azure OpenAI API version not found in .env file")
       ELSE IF ~Truthy(api_key)
       THEN AssertionError("Azure OpenAI API key not found in .env file")
       ELSE IF ~Truthy(endpoint)
       THEN AssertionError("Azure OpenAI endpoint not found in .env file")
       ELSE IF include_api_version
       THEN Ok(<<Or(deployment, Str(<<>>)), api_key, endpoint, Or(api_version, Str(<<>>))>>)
       ELSE Ok(<<Or(deployment, Str(<<>>)), api_key, endpoint>>)

azure_openai_settings_from_dot_env_as_dict(e, environ, include_deployment, include_api_version) ==
    LET r == Unpack(azure_openai_settings_from_dot_env(e, environ, include_deployment,
                                                       include_api_version), 4)
        ret0 == [k \in {"api_key", "endpoint"} |->
                    IF k = "api_key" THEN r.val[2] ELSE r.val[3]]
        ret1 == IF include_deployment
                THEN [k \in DOMAIN ret0 \cup {"deployment_name"} |->
                         IF k = "deployment_name" THEN r.val[1] ELSE ret0[k]]
                ELSE ret0
        ret2 == IF include_api_version
                THEN [k \in DOMAIN ret1 \cup {"api_version"} |->
                         IF k = "api_version" THEN r.val[4] ELSE ret1[k]]
                ELSE ret1
    IN IF r.kind # "ok" THEN r ELSE Ok(ret2)

postgres_settings_from_dot_env(e, environ) ==
    LET config == dotenv_values(e, environ)
        connection_string == Get(config, POSTGRES_CONNECTION_STRING)
    IN IF ~Truthy(connection_string)
       THEN AssertionError("Postgres connection string not found in .env file")
       ELSE Ok(connection_string)

pinecone_settings_from_dot_env(e) ==
    IF ~e.exists THEN FileNotFoundError
    ELSE LET v == ScanLines(ReadLines(e.text),
                            <<PINECONE_API_KEY, PINECONE_ENVIRONMENT>>, <<None, None>>)
             api_key == v[1]
             environment == v[2]
         IN IF ~Truthy(api_key) THEN AssertionError("Pinecone API key not found in .env file")
            ELSE IF ~Truthy(environment)
            THEN AssertionError("Pinecone environment not found in .env file")
            ELSE Ok(<<api_key, environment>>)

astradb_settings_from_dot_env(e) ==
    IF ~e.exists THEN FileNotFoundError
    ELSE LET v == ScanLines(ReadLines(e.text),
                            <<ASTRADB_APP_TOKEN, ASTRADB_ID, ASTRADB_REGION, ASTRADB_KEYSPACE>>,
                            <<None, None, None, None>>)
             app_token == v[1]
             db_id == v[2]
             region == v[3]
             keyspace == v[4]
         IN IF ~Truthy(app_token)
            THEN AssertionError("Astradb Application token not found in .env file")
            ELSE IF ~Truthy(db_id) THEN AssertionError("Astradb ID not found in .env file")
            ELSE IF ~Truthy(region) THEN AssertionError("Astradb Region not found in .env file")
            ELSE IF ~Truthy(keyspace)
            THEN AssertionError("Astradb Keyspace name not found in .env file")
            ELSE Ok(<<app_token, db_id, region, keyspace>>)

weaviate_settings_from_dot_env(e, environ) ==
    LET config == dotenv_values(e, environ)
        api_key == Get(config, WEAVIATE_API_KEY)
        url == Get(config, WEAVIATE_URL)
    IN IF url.isNone THEN AssertionError("Weaviate instance URL not found in .env file")
       ELSE Ok(<<api_key, url>>)

bing_search_settings_from_dot_env(e, environ) ==
    LET config == dotenv_values(e, environ)
        api_key == Get(config, BING_API_KEY)
    IN IF api_key.isNone THEN AssertionError("Bing Search API key not found in .env file")
       ELSE Ok(api_key)

mongodb_atlas_settings_from_dot_env(e, environ) ==
    LET config == dotenv_values(e, environ)
        uri == Get(config, MONGODB_ATLAS_CONNECTION_STRING)
    IN IF uri.isNone THEN AssertionError("MongoDB Connection String not found in .env file")
       ELSE Ok(uri)

google_palm_settings_from_dot_env(e, environ) ==
    LET config == dotenv_values(e, environ)
        api_key == Get(config, GOOGLE_PALM_API_KEY)
    IN IF api_key.isNone THEN AssertionError("Google PaLM API key not found in .env file")
       ELSE Ok(api_key)

azure_cosmos_db_settings_from_dot_env(e, environ) ==
    LET config == dotenv_values(e, environ)
        cosmos_api == Get(config, AZCOSMOS_API)
        cosmos_connstr == Get(config, AZCOSMOS_CONNSTR)
    IN IF cosmos_connstr.isNone
       THEN AssertionError("Azure Cosmos Connection String not found in .env file")
       ELSE Ok(<<cosmos_api, cosmos_connstr>>)

redis_settings_from_dot_env(e, environ) ==
    LET config == dotenv_values(e, environ)
        connection_string == Get(config, REDIS_CONNECTION_STRING)
    IN IF connection_string.isNone
       THEN AssertionError("Redis connection string not found in .env file")
       ELSE Ok(connection_string)

azure_aisearch_settings_from_dot_env(e, environ, include_index_name) ==
    LET config == dotenv_values(e, environ)
        api_key == Get(config, AZURE_AISEARCH_API_KEY)
        url == Get(config, AZURE_AISEARCH_URL)
        index_name == Get(config, AZURE_AISEARCH_INDEX_NAME)
    IN IF url.isNone THEN AssertionError("Azure AI Search URL not found in .env file")
       ELSE IF api_key.isNone
       THEN AssertionError("Azure AI Search API key not found in .env file")
       ELSE IF ~include_index_name THEN Ok(<<api_key, url>>)
       ELSE IF index_name.isNone
       THEN AssertionError("Azure AI Search index name not found in .env file")
       ELSE Ok(<<api_key, url, index_name>>)

azure_aisearch_settings_from_dot_env_as_dict(e, environ) ==
    LET r == Unpack(azure_aisearch_settings_from_dot_env(e, environ, TRUE), 3)
    IN IF r.kind # "ok" THEN r
       ELSE Ok([authentication |-> [type |-> "api_key", key |-> r.val[1]],
                endpoint |-> r.val[2], index_name |-> r.val[3]])

azure_key_vault_settings_from_dot_env(e, environ, include_client_id, include_client_secret) ==
    LET config == dotenv_values(e, environ)
        endpoint == Get(config, AZURE_KEY_VAULT_ENDPOINT)
        client_id == Get(config, AZURE_KEY_VAULT_CLIENT_ID)
        client_secret == Get(config, AZURE_KEY_VAULT_CLIENT_SECRET)
    IN IF endpoint.isNone
       THEN AssertionError("Azure Key Vault endpoint not found in .env file")
       ELSE IF include_client_id /\ client_id.isNone
       THEN AssertionError("Azure Key Vault client ID not found in .env file")
       ELSE IF include_client_secret /\ client_secret.isNone
       THEN AssertionError("Azure Key Vault client secret not found in .env file")
       ELSE IF include_client_id /\ include_client_secret
       THEN Ok(<<endpoint, client_id, client_secret>>)
       ELSE Ok(<<endpoint, client_id>>)

azure_key_vault_settings_from_dot_env_as_dict(e, environ) ==
    LET r == Unpack(azure_key_vault_settings_from_dot_env(e, environ, TRUE, TRUE), 3)
    IN IF r.kind # "ok" THEN r
       ELSE Ok([endpoint |-> r.val[1], client_id |-> r.val[2], client_secret |-> r.val[3]])

booking_sample_settings_from_dot_env(e, environ) ==
    LET config == dotenv_values(e, environ)
        client_id == Get(config, BOOKING_SAMPLE_CLIENT_ID)
        tenant_id == Get(config, BOOKING_SAMPLE_TENANT_ID)
        client_secret == Get(config, BOOKING_SAMPLE_CLIENT_SECRET)
    IN IF ~Truthy(client_id)
       THEN AssertionError("Booking Sample Client ID not found in .env file")
       ELSE IF ~Truthy(tenant_id)
       THEN AssertionError("Booking Sample Tenant ID not found in .env file")
       ELSE IF ~Truthy(client_secret)
       THEN AssertionError("Booking Sample Client Secret not found in .env file")
       ELSE Ok(<<client_id, tenant_id, client_secret>>)

booking_sample_settings_from_dot_env_as_dict(e, environ) ==
    LET r == Unpack(booking_sample_settings_from_dot_env(e, environ), 3)
    IN IF r.kind # "ok" THEN r
       ELSE Ok([client_id |-> r.val[1], tenant_id |-> r.val[2], client_secret |-> r.val[3]])


\* ------------------------------------------------- the configuration files
\* The keys each service reads, in the order of its accessor.
ServiceKeys ==
    { <<OPENAI_API_KEY, OPENAI_ORG_ID>>,
      <<AZURE_OPENAI_DEPLOYMENT_NAME, AZURE_OPENAI_API_KEY, AZURE_OPENAI_ENDPOINT,
        AZURE_OPENAI_API_VERSION>>,
      <<POSTGRES_CONNECTION_STRING>>,
      <<PINECONE_API_KEY, PINECONE_ENVIRONMENT>>,
      <<ASTRADB_APP_TOKEN, ASTRADB_ID, ASTRADB_REGION, ASTRADB_KEYSPACE>>,
      <<WEAVIATE_API_KEY, WEAVIATE_URL>>,
      <<BING_API_KEY>>,
      <<MONGODB_ATLAS_CONNECTION_STRING>>,
      <<GOOGLE_PALM_API_KEY>>,
      <<AZCOSMOS_API, AZCOSMOS_CONNSTR>>,
      <<REDIS_CONNECTION_STRING>>,
      <<AZURE_AISEARCH_API_KEY, AZURE_AISEARCH_URL, AZURE_AISEARCH_INDEX_NAME>>,
      <<AZURE_KEY_VAULT_ENDPOINT, AZURE_KEY_VAULT_CLIENT_ID, AZURE_KEY_VAULT_CLIENT_SECRET>>,
      <<BOOKING_SAMPLE_CLIENT_ID, BOOKING_SAMPLE_TENANT_ID, BOOKING_SAMPLE_CLIENT_SECRET>> }

\* What follows KEY= on a line: a body of "a" and "=" between up to MaxQuotes
\* double quotes on either side.
Bodies == UNION {[1..n -> {Letter.a, EQ}] : n \in 0..MaxBody}
Quotes(n) == [i \in 1..n |-> QUOTE]
Raws == {Quotes(q1) \o b \o Quotes(q2) : q1 \in 0..MaxQuotes, q2 \in 0..MaxQuotes, b \in Bodies}

\* The plain line of the j-th key of a service: KEY=x1, KEY=x2, ...
PlainValue(j) == <<Letter.x, Digit(j)>>
PlainLine(keys, j) == keys[j] \o <<EQ>> \o PlainValue(j) \o <<NL>>

\* The lines one key may be given in any file: none, the key alone, an empty,
\* a plain and a quoted value, the key beside or replaced by a longer key
\* that starts with it, a comment.
SimpleForms(k) ==
    { <<>>,
      k \o <<NL>>,
      k \o <<EQ, NL>>,
      k \o <<EQ, Letter.a, NL>>,
      k \o <<EQ, QUOTE, Letter.a, QUOTE, NL>>,
      k \o <<EQ, Letter.a, NL>> \o k \o <<UNDERSCORE, Digit(2), EQ, Letter.b, NL>>,
      k \o <<UNDERSCORE, Digit(2), EQ, Letter.b, NL>>,
      <<HASH>> \o k \o <<EQ, Letter.a, NL>> }

\* The lines KEY=raw.
RawForms(k) == {k \o <<EQ>> \o r \o <<NL>> : r \in Raws}

\* Lines in the dialect of the general parser: an "export " prefix, a key in
\* single quotes, a value in single quotes, escapes in a double-quoted
\* value, a variable (alone, with a default, and bound by the line before),
\* a line that ends in "\r\n", a form feed behind the value, blanks around
\* the "=", a comment behind the value, whitespace outside ASCII behind the
\* value, a value outside ASCII.
DialectForms(k) ==
    { EXPORT \o <<SPACE>> \o k \o <<EQ, Letter.a, NL>>,
      <<APOS>> \o k \o <<APOS, EQ, Letter.a, NL>>,
      k \o <<EQ, APOS, Letter.a, APOS, NL>>,
      k \o <<EQ, QUOTE, BACKSLASH, Letter.t, Letter.a, BACKSLASH, QUOTE, QUOTE, NL>>,
      k \o <<EQ, DOLLAR, LBRACE, Letter.a, RBRACE, NL>>,
      k \o <<EQ, DOLLAR, LBRACE, Letter.a, COLON, HYPHEN, Letter.x, RBRACE, NL>>,
      <<Letter.a, EQ, Letter.x, NL>> \o k \o <<EQ, DOLLAR, LBRACE, Letter.a, RBRACE, NL>>,
      k \o <<EQ, Letter.a, CR, NL>>,
      k \o <<EQ, Letter.a, FF, NL>>,
      k \o <<SPACE, EQ, SPACE, Letter.a, NL>>,
      k \o <<EQ, Letter.a, SPACE, HASH, Letter.x, NL>>,
      k \o <<EQ, Letter.a, EM_SPACE, NL>>,
      k \o <<EQ, E_ACUTE, NL>> }

RECURSIVE Concat(_)
Concat(ss) == IF ss = <<>> THEN <<>> ELSE Head(ss) \o Concat(Tail(ss))

\* The text of a file of one service: key f has the line(s) `form`, key m
\* (0 for none) is left out, the other keys have their plain lines.
Render(keys, f, m, form) ==
    Concat([j \in 1..Len(keys) |->
               IF j = f THEN form ELSE IF j = m THEN <<>> ELSE PlainLine(keys, j)])

\* The files of one service: one key takes any line KEY=raw or a line of the
\* parser's dialect beside the plain lines of the others, or one key takes a
\* simple form and at most one other key is left out.
FilesOf(keys) ==
    UNION { {Render(keys, f, 0, form) : form \in RawForms(keys[f]) \cup DialectForms(keys[f])}
            \cup UNION { {Render(keys, f, m, form) : form \in SimpleForms(keys[f])} :
                         m \in (0..Len(keys)) \ {f} } :
            f \in 1..Len(keys) }

Files == {NoFile} \cup {File(t) : t \in UNION {FilesOf(keys) : keys \in ServiceKeys}}

\* The environments of the process: the name "a" unset, set to "b", or set
\* to "". A file that names no variable is read with the name unset: the
\* environment is read for the variables of a value only.
NoEnviron == [n \in {} |-> <<>>]
Environs == {NoEnviron, [n \in {<<Letter.a>>} |-> <<Letter.b>>], [n \in {<<Letter.a>>} |-> <<>>]}
NamesVariable(e) == \E p \in 1..Len(e.text) : e.text[p] = DOLLAR

\* ------------------------------------------------------ the state machine
\* env: the configuration file; os_environ: the environment of
\* the process; pc: "idle" between calls, "returned" after
\* one; call: the accessor last called and its flags; ret: its outcome.
NoCall == [fn |-> "", args |-> <<>>]
NoResult == Raise("", "")

Init ==
    /\ env \in Files
    /\ os_environ \in Environs
    /\ os_environ # NoEnviron => NamesVariable(env)
    /\ pc = "idle"
    /\ call = NoCall
    /\ ret = NoResult

Call_openai_settings_from_dot_env ==
    /\ pc = "idle"
    /\ pc' = "returned"
    /\ call' = [fn |-> "openai_settings_from_dot_env", args |-> <<>>]
    /\ ret' = openai_settings_from_dot_env(env, os_environ)
    /\ UNCHANGED <<env, os_environ>>

Call_azure_openai_settings_from_dot_env ==
    /\ pc = "idle"
    /\ \E f1, f2 \in BOOLEAN :
          /\ call' = [fn |-> "azure_openai_settings_from_dot_env", args |-> <<f1, f2>>]
          /\ ret' = azure_openai_settings_from_dot_env(env, os_environ, f1, f2)
    /\ pc' = "returned"
    /\ UNCHANGED <<env, os_environ>>

Call_azure_openai_settings_from_dot_env_as_dict ==
    /\ pc = "idle"
    /\ \E f1, f2 \in BOOLEAN :
          /\ call' = [fn |-> "azure_openai_settings_from_dot_env_as_dict", args |-> <<f1, f2>>]
          /\ ret' = azure_openai_settings_from_dot_env_as_dict(env, os_environ, f1, f2)
    /\ pc' = "returned"
    /\ UNCHANGED <<env, os_environ>>

Call_postgres_settings_from_dot_env ==
    /\ pc = "idle"
    /\ pc' = "returned"
    /\ call' = [fn |-> "postgres_settings_from_dot_env", args |-> <<>>]
    /\ ret' = postgres_settings_from_dot_env(env, os_environ)
    /\ UNCHANGED <<env, os_environ>>

Call_pinecone_settings_from_dot_env ==
    /\ pc = "idle"
    /\ pc' = "returned"
    /\ call' = [fn |-> "pinecone_settings_from_dot_env", args |-> <<>>]
    /\ ret' = pinecone_settings_from_dot_env(env)
    /\ UNCHANGED <<env, os_environ>>

Call_astradb_settings_from_dot_env ==
    /\ pc = "idle"
    /\ pc' = "returned"
    /\ call' = [fn |-> "astradb_settings_from_dot_env", args |-> <<>>]
    /\ ret' = astradb_settings_from_dot_env(env)
    /\ UNCHANGED <<env, os_environ>>

Call_weaviate_settings_from_dot_env ==
    /\ pc = "idle"
    /\ pc' = "returned"
    /\ call' = [fn |-> "weaviate_settings_from_dot_env", args |-> <<>>]
    /\ ret' = weaviate_settings_from_dot_env(env, os_environ)
    /\ UNCHANGED <<env, os_environ>>

Call_bing_search_settings_from_dot_env ==
    /\ pc = "idle"
    /\ pc' = "returned"
    /\ call' = [fn |-> "bing_search_settings_from_dot_env", args |-> <<>>]
    /\ ret' = bing_search_settings_from_dot_env(env, os_environ)
    /\ UNCHANGED <<env, os_environ>>

Call_mongodb_atlas_settings_from_dot_env ==
    /\ pc = "idle"
    /\ pc' = "returned"
    /\ call' = [fn |-> "mongodb_atlas_settings_from_dot_env", args |-> <<>>]
    /\ ret' = mongodb_atlas_settings_from_dot_env(env, os_environ)
    /\ UNCHANGED <<env, os_environ>>

Call_google_palm_settings_from_dot_env ==
    /\ pc = "idle"
    /\ pc' = "returned"
    /\ call' = [fn |-> "google_palm_settings_from_dot_env", args |-> <<>>]
    /\ ret' = google_palm_settings_from_dot_env(env, os_environ)
    /\ UNCHANGED <<env, os_environ>>

Call_azure_cosmos_db_settings_from_dot_env ==
    /\ pc = "idle"
    /\ pc' = "returned"
    /\ call' = [fn |-> "azure_cosmos_db_settings_from_dot_env", args |-> <<>>]
    /\ ret' = azure_cosmos_db_settings_from_dot_env(env, os_environ)
    /\ UNCHANGED <<env, os_environ>>

Call_redis_settings_from_dot_env ==
    /\ pc = "idle"
    /\ pc' = "returned"
    /\ call' = [fn |-> "redis_settings_from_dot_env", args |-> <<>>]
    /\ ret' = redis_settings_from_dot_env(env, os_environ)
    /\ UNCHANGED <<env, os_environ>>

Call_azure_aisearch_settings_from_dot_env ==
    /\ pc = "idle"
    /\ \E f1 \in BOOLEAN :
          /\ call' = [fn |-> "azure_aisearch_settings_from_dot_env", args |-> <<f1>>]
          /\ ret' = azure_aisearch_settings_from_dot_env(env, os_environ, f1)
    /\ pc' = "returned"
    /\ UNCHANGED <<env, os_environ>>

Call_azure_aisearch_settings_from_dot_env_as_dict ==
    /\ pc = "idle"
    /\ pc' = "returned"
    /\ call' = [fn |-> "azure_aisearch_settings_from_dot_env_as_dict", args |-> <<>>]
    /\ ret' = azure_aisearch_settings_from_dot_env_as_dict(env, os_environ)
    /\ UNCHANGED <<env, os_environ>>

Call_azure_key_vault_settings_from_dot_env ==
    /\ pc = "idle"
    /\ \E f1, f2 \in BOOLEAN :
          /\ call' = [fn |-> "azure_key_vault_settings_from_dot_env", args |-> <<f1, f2>>]
          /\ ret' = azure_key_vault_settings_from_dot_env(env, os_environ, f1, f2)
    /\ pc' = "returned"
    /\ UNCHANGED <<env, os_environ>>

Call_azure_key_vault_settings_from_dot_env_as_dict ==
    /\ pc = "idle"
    /\ pc' = "returned"
    /\ call' = [fn |-> "azure_key_vault_settings_from_dot_env_as_dict", args |-> <<>>]
    /\ ret' = azure_key_vault_settings_from_dot_env_as_dict(env, os_environ)
    /\ UNCHANGED <<env, os_environ>>

Call_booking_sample_settings_from_dot_env ==
    /\ pc = "idle"
    /\ pc' = "returned"
    /\ call' = [fn |-> "booking_sample_settings_from_dot_env", args |-> <<>>]
    /\ ret' = booking_sample_settings_from_dot_env(env, os_environ)
    /\ UNCHANGED <<env, os_environ>>

Call_booking_sample_settings_from_dot_env_as_dict ==
    /\ pc = "idle"
    /\ pc' = "returned"
    /\ call' = [fn |-> "booking_sample_settings_from_dot_env_as_dict", args |-> <<>>]
    /\ ret' = booking_sample_settings_from_dot_env_as_dict(env, os_environ)
    /\ UNCHANGED <<env, os_environ>>

\* The caller takes the outcome; nothing of the call is kept.
Discard ==
    /\ pc = "returned"
    /\ pc' = "idle"
    /\ call' = NoCall
    /\ ret' = NoResult
    /\ UNCHANGED <<env, os_environ>>

Next ==
    \/ Call_openai_settings_from_dot_env
    \/ Call_azure_openai_settings_from_dot_env
    \/ Call_azure_openai_settings_from_dot_env_as_dict
    \/ Call_postgres_settings_from_dot_env
    \/ Call_pinecone_settings_from_dot_env
    \/ Call_astradb_settings_from_dot_env
    \/ Call_weaviate_settings_from_dot_env
    \/ Call_bing_search_settings_from_dot_env
    \/ Call_mongodb_atlas_settings_from_dot_env
    \/ Call_google_palm_settings_from_dot_env
    \/ Call_azure_cosmos_db_settings_from_dot_env
    \/ Call_redis_settings_from_dot_env
    \/ Call_azure_aisearch_settings_from_dot_env
    \/ Call_azure_aisearch_settings_from_dot_env_as_dict
    \/ Call_azure_key_vault_settings_from_dot_env
    \/ Call_azure_key_vault_settings_from_dot_env_as_dict
    \/ Call_booking_sample_settings_from_dot_env
    \/ Call_booking_sample_settings_from_dot_env_as_dict
    \/ Discard

Spec == Init /\ [][Next]_vars


\* The outcome of the call c on the file e in the environment n.
Apply(c, e, n) ==
    CASE c.fn = "openai_settings_from_dot_env" -> openai_settings_from_dot_env(e, n)
      [] c.fn = "azure_openai_settings_from_dot_env" ->
            azure_openai_settings_from_dot_env(e, n, c.args[1], c.args[2])
      [] c.fn = "azure_openai_settings_from_dot_env_as_dict" ->
            azure_openai_settings_from_dot_env_as_dict(e, n, c.args[1], c.args[2])
      [] c.fn = "postgres_settings_from_dot_env" -> postgres_settings_from_dot_env(e, n)
      [] c.fn = "pinecone_settings_from_dot_env" -> pinecone_settings_from_dot_env(e)
      [] c.fn = "astradb_settings_from_dot_env" -> astradb_settings_from_dot_env(e)
      [] c.fn = "weaviate_settings_from_dot_env" -> weaviate_settings_from_dot_env(e, n)
      [] c.fn = "bing_search_settings_from_dot_env" -> bing_search_settings_from_dot_env(e, n)
      [] c.fn = "mongodb_atlas_settings_from_dot_env" -> mongodb_atlas_settings_from_dot_env(e, n)
      [] c.fn = "google_palm_settings_from_dot_env" -> google_palm_settings_from_dot_env(e, n)
      [] c.fn = "azure_cosmos_db_settings_from_dot_env" ->
            azure_cosmos_db_settings_from_dot_env(e, n)
      [] c.fn = "redis_settings_from_dot_env" -> redis_settings_from_dot_env(e, n)
      [] c.fn = "azure_aisearch_settings_from_dot_env" ->
            azure_aisearch_settings_from_dot_env(e, n, c.args[1])
      [] c.fn = "azure_aisearch_settings_from_dot_env_as_dict" ->
            azure_aisearch_settings_from_dot_env_as_dict(e, n)
      [] c.fn = "azure_key_vault_settings_from_dot_env" ->
            azure_key_vault_settings_from_dot_env(e, n, c.args[1], c.args[2])
      [] c.fn = "azure_key_vault_settings_from_dot_env_as_dict" ->
            azure_key_vault_settings_from_dot_env_as_dict(e, n)
      [] c.fn = "booking_sample_settings_from_dot_env" ->
            booking_sample_settings_from_dot_env(e, n)
      [] c.fn = "booking_sample_settings_from_dot_env_as_dict" ->
            booking_sample_settings_from_dot_env_as_dict(e, n)

\* The state is well formed, and the outcome held is the one of the call held.
TypeOK ==
    /\ env \in Files
    /\ os_environ \in Environs
    /\ os_environ # NoEnviron => NamesVariable(env)
    /\ pc \in {"idle", "returned"}
    /\ pc = "idle" => call = NoCall /\ ret = NoResult
    /\ pc = "returned" => ret = Apply(call, env, os_environ)

\* ------------------------------------------- the source, as the reader sees it
\* What the claims call the source: the lines of the file, the key a line
\* assigns (the text before its first "=", without the blanks around it, an
\* "export " before it and single quotes around it), and the value it gives
\* the key (the text after that "=", without the line end and without one
\* layer of surrounding double quotes).
Returned == pc = "returned"

SrcLines(e) == IF e.exists THEN ReadLines(e.text) ELSE <<>>
HasEq(line) == \E i \in 1..Len(line) : line[i] = EQ
Unexported(s) ==
    IF StartsWith(s, EXPORT \o <<SPACE>>) THEN StripChars(SubSeq(s, 7, Len(s)), Blank) ELSE s
Unquoted(s) ==
    IF Len(s) >= 3 /\ s[1] = APOS /\ s[Len(s)] = APOS THEN SubSeq(s, 2, Len(s) - 1) ELSE s
LineKey(line) ==
    Unquoted(Unexported(StripChars(SubSeq(line, 1, SkipUntil(line, 1, {EQ, NL}) - 1), Blank)))
LineRaw(line) == SubSeq(line, SkipUntil(line, 1, {EQ}) + 1, SkipUntil(line, 1, {NL}) - 1)
Unquote(raw) ==
    IF Len(raw) >= 2 /\ raw[1] = QUOTE /\ raw[Len(raw)] = QUOTE
    THEN SubSeq(raw, 2, Len(raw) - 1) ELSE raw
NoQuote(s) == \A i \in 1..Len(s) : s[i] # QUOTE
\* A valid value: one that holds no character either parser gives a meaning.
Valid(s) ==
    \A i \in 1..Len(s) : s[i] \notin Whitespace \cup {QUOTE, APOS, BACKSLASH, DOLLAR, HASH}

\* The lines of e that assign key k (or name it without a value).
LinesOf(e, k) == {i \in 1..Len(SrcLines(e)) : LineKey(SrcLines(e)[i]) = k}
Absent(e, k) == LinesOf(e, k) = {}
LastLineOf(e, k) == SrcLines(e)[CHOOSE i \in LinesOf(e, k) : \A j \in LinesOf(e, k) : j <= i]
\* The value the source holds for k; empty for a key named without "=".
SourceValue(e, k) ==
    IF HasEq(LastLineOf(e, k)) THEN Unquote(LineRaw(LastLineOf(e, k))) ELSE <<>>
\* The source holds k with an empty value.
HoldsEmpty(e, k) == ~Absent(e, k) /\ SourceValue(e, k) = <<>>
\* The source holds a valid non-empty value for k in a line KEY=VALUE:
\* unquoted, or in one layer of double quotes.
HoldsValue(e, k) ==
    /\ ~Absent(e, k)
    /\ StartsWith(LastLineOf(e, k), k)
    /\ SourceValue(e, k) # <<>>
    /\ Valid(SourceValue(e, k))

\* The keys a call requires (section 6 of the specification; an inclusion
\* flag set to true makes its key required).
RequiredKeys(c) ==
    CASE c.fn = "openai_settings_from_dot_env" -> {OPENAI_API_KEY}
      [] c.fn \in {"azure_openai_settings_from_dot_env",
                   "azure_openai_settings_from_dot_env_as_dict"} ->
            {AZURE_OPENAI_API_KEY, AZURE_OPENAI_ENDPOINT}
            \cup (IF c.args[1] THEN {AZURE_OPENAI_DEPLOYMENT_NAME} ELSE {})
            \cup (IF c.args[2] THEN {AZURE_OPENAI_API_VERSION} ELSE {})
      [] c.fn = "postgres_settings_from_dot_env" -> {POSTGRES_CONNECTION_STRING}
      [] c.fn = "pinecone_settings_from_dot_env" -> {PINECONE_API_KEY, PINECONE_ENVIRONMENT}
      [] c.fn = "astradb_settings_from_dot_env" ->
            {ASTRADB_APP_TOKEN, ASTRADB_ID, ASTRADB_REGION, ASTRADB_KEYSPACE}
      [] c.fn = "weaviate_settings_from_dot_env" -> {WEAVIATE_URL}
      [] c.fn = "bing_search_settings_from_dot_env" -> {BING_API_KEY}
      [] c.fn = "mongodb_atlas_settings_from_dot_env" -> {MONGODB_ATLAS_CONNECTION_STRING}
      [] c.fn = "google_palm_settings_from_dot_env" -> {GOOGLE_PALM_API_KEY}
      [] c.fn = "azure_cosmos_db_settings_from_dot_env" -> {AZCOSMOS_CONNSTR}
      [] c.fn = "redis_settings_from_dot_env" -> {REDIS_CONNECTION_STRING}
      [] c.fn = "azure_aisearch_settings_from_dot_env" ->
            {AZURE_AISEARCH_API_KEY, AZURE_AISEARCH_URL}
            \cup (IF c.args[1] THEN {AZURE_AISEARCH_INDEX_NAME} ELSE {})
      [] c.fn = "azure_aisearch_settings_from_dot_env_as_dict" ->
            {AZURE_AISEARCH_API_KEY, AZURE_AISEARCH_URL, AZURE_AISEARCH_INDEX_NAME}
      [] c.fn = "azure_key_vault_settings_from_dot_env" ->
            {AZURE_KEY_VAULT_ENDPOINT}
            \cup (IF c.args[1] THEN {AZURE_KEY_VAULT_CLIENT_ID} ELSE {})
            \cup (IF c.args[2] THEN {AZURE_KEY_VAULT_CLIENT_SECRET} ELSE {})
      [] c.fn = "azure_key_vault_settings_from_dot_env_as_dict" ->
            {AZURE_KEY_VAULT_ENDPOINT, AZURE_KEY_VAULT_CLIENT_ID,
             AZURE_KEY_VAULT_CLIENT_SECRET}
      [] c.fn \in {"booking_sample_settings_from_dot_env",
                   "booking_sample_settings_from_dot_env_as_dict"} ->
            {BOOKING_SAMPLE_CLIENT_ID, BOOKING_SAMPLE_TENANT_ID,
             BOOKING_SAMPLE_CLIENT_SECRET}

\* The keys whose values a tuple accessor returns, in the order of its
\* return statement; a shorter tuple holds the first of them.
TupleKeys(fn) ==
    CASE fn = "openai_settings_from_dot_env" -> <<OPENAI_API_KEY, OPENAI_ORG_ID>>
      [] fn = "azure_openai_settings_from_dot_env" ->
            <<AZURE_OPENAI_DEPLOYMENT_NAME, AZURE_OPENAI_API_KEY, AZURE_OPENAI_ENDPOINT,
              AZURE_OPENAI_API_VERSION>>
      [] fn = "pinecone_settings_from_dot_env" -> <<PINECONE_API_KEY, PINECONE_ENVIRONMENT>>
      [] fn = "astradb_settings_from_dot_env" ->
            <<ASTRADB_APP_TOKEN, ASTRADB_ID, ASTRADB_REGION, ASTRADB_KEYSPACE>>
      [] fn = "weaviate_settings_from_dot_env" -> <<WEAVIATE_API_KEY, WEAVIATE_URL>>
      [] fn = "azure_cosmos_db_settings_from_dot_env" -> <<AZCOSMOS_API, AZCOSMOS_CONNSTR>>
      [] fn = "azure_aisearch_settings_from_dot_env" ->
            <<AZURE_AISEARCH_API_KEY, AZURE_AISEARCH_URL, AZURE_AISEARCH_INDEX_NAME>>
      [] fn = "azure_key_vault_settings_from_dot_env" ->
            <<AZURE_KEY_VAULT_ENDPOINT, AZURE_KEY_VAULT_CLIENT_ID,
              AZURE_KEY_VAULT_CLIENT_SECRET>>
      [] fn = "booking_sample_settings_from_dot_env" ->
            <<BOOKING_SAMPLE_CLIENT_ID, BOOKING_SAMPLE_TENANT_ID,
              BOOKING_SAMPLE_CLIENT_SECRET>>

\* The one key of the accessors that return a single str.
StrKey(fn) ==
    CASE fn = "postgres_settings_from_dot_env" -> POSTGRES_CONNECTION_STRING
      [] fn = "bing_search_settings_from_dot_env" -> BING_API_KEY
      [] fn = "mongodb_atlas_settings_from_dot_env" -> MONGODB_ATLAS_CONNECTION_STRING
      [] fn = "google_palm_settings_from_dot_env" -> GOOGLE_PALM_API_KEY
      [] fn = "redis_settings_from_dot_env" -> REDIS_CONNECTION_STRING

\* The key each field of a dict accessor is named after.
DictKeys(fn) ==
    CASE fn = "azure_openai_settings_from_dot_env_as_dict" ->
            [api_key |-> AZURE_OPENAI_API_KEY, endpoint |-> AZURE_OPENAI_ENDPOINT,
             deployment_name |-> AZURE_OPENAI_DEPLOYMENT_NAME,
             api_version |-> AZURE_OPENAI_API_VERSION]
      [] fn = "azure_aisearch_settings_from_dot_env_as_dict" ->
            [endpoint |-> AZURE_AISEARCH_URL, index_name |-> AZURE_AISEARCH_INDEX_NAME]
      [] fn = "azure_key_vault_settings_from_dot_env_as_dict" ->
            [endpoint |-> AZURE_KEY_VAULT_ENDPOINT, client_id |-> AZURE_KEY_VAULT_CLIENT_ID,
             client_secret |-> AZURE_KEY_VAULT_CLIENT_SECRET]
      [] fn = "booking_sample_settings_from_dot_env_as_dict" ->
            [client_id |-> BOOKING_SAMPLE_CLIENT_ID, tenant_id |-> BOOKING_SAMPLE_TENANT_ID,
             client_secret |-> BOOKING_SAMPLE_CLIENT_SECRET]

StrAccessors == {"postgres_settings_from_dot_env", "bing_search_settings_from_dot_env",
                 "mongodb_atlas_settings_from_dot_env", "google_palm_settings_from_dot_env",
                 "redis_settings_from_dot_env"}
DictAccessors == {"azure_openai_settings_from_dot_env_as_dict",
                  "azure_aisearch_settings_from_dot_env_as_dict",
                  "azure_key_vault_settings_from_dot_env_as_dict",
                  "booking_sample_settings_from_dot_env_as_dict"}
LineScanners == {"pinecone_settings_from_dot_env", "astradb_settings_from_dot_env"}

\* The bundle a successful call returned, as a mapping from each key that has
\* a field in it to the value of that field.
Bundle(c, r) ==
    IF c.fn \in StrAccessors THEN [k \in {StrKey(c.fn)} |-> r.val]
    ELSE IF c.fn \in DictAccessors
    THEN LET names == DictKeys(c.fn)
             base == [k \in {names[f] : f \in DOMAIN names \cap DOMAIN r.val} |->
                         r.val[CHOOSE f \in DOMAIN names \cap DOMAIN r.val : names[f] = k]]
         IN IF c.fn = "azure_aisearch_settings_from_dot_env_as_dict"
            THEN [k \in DOMAIN base \cup {AZURE_AISEARCH_API_KEY} |->
                     IF k = AZURE_AISEARCH_API_KEY THEN r.val.authentication.key
                     ELSE base[k]]
            ELSE base
    ELSE LET keys == TupleKeys(c.fn)
         IN [k \in {keys[i] : i \in 1..Len(r.val)} |->
                r.val[CHOOSE i \in 1..Len(r.val) : keys[i] = k]]


\* The accessors that take inclusion flags, and the key of each flag.
FlagKeys(fn) ==
    CASE fn \in {"azure_openai_settings_from_dot_env",
                 "azure_openai_settings_from_dot_env_as_dict"} ->
            <<AZURE_OPENAI_DEPLOYMENT_NAME, AZURE_OPENAI_API_VERSION>>
      [] fn = "azure_aisearch_settings_from_dot_env" -> <<AZURE_AISEARCH_INDEX_NAME>>
      [] fn = "azure_key_vault_settings_from_dot_env" ->
            <<AZURE_KEY_VAULT_CLIENT_ID, AZURE_KEY_VAULT_CLIENT_SECRET>>
      [] OTHER -> <<>>

\* The optional key of an accessor that has one without a flag.
OptionalKey(fn) ==
    CASE fn = "openai_settings_from_dot_env" -> OPENAI_ORG_ID
      [] fn = "weaviate_settings_from_dot_env" -> WEAVIATE_API_KEY
      [] fn = "azure_cosmos_db_settings_from_dot_env" -> AZCOSMOS_API
OptionalKeyAccessors == {"openai_settings_from_dot_env", "weaviate_settings_from_dot_env",
                         "azure_cosmos_db_settings_from_dot_env"}

\* The file e without the lines of key k.
Without(e, k) ==
    LET ls == SrcLines(e)
    IN [e EXCEPT !.text = Concat([i \in 1..Len(ls) |->
                                     IF LineKey(ls[i]) = k THEN <<>> ELSE ls[i]])]

\* The call of the tuple accessor that a dict accessor makes.
TupleCall(c) ==
    CASE c.fn = "azure_openai_settings_from_dot_env_as_dict" ->
            [fn |-> "azure_openai_settings_from_dot_env", args |-> c.args]
      [] c.fn = "azure_aisearch_settings_from_dot_env_as_dict" ->
            [fn |-> "azure_aisearch_settings_from_dot_env", args |-> <<TRUE>>]
      [] c.fn = "azure_key_vault_settings_from_dot_env_as_dict" ->
            [fn |-> "azure_key_vault_settings_from_dot_env", args |-> <<TRUE, TRUE>>]
      [] c.fn = "booking_sample_settings_from_dot_env_as_dict" ->
            [fn |-> "booking_sample_settings_from_dot_env", args |-> <<>>]

\* ------------------------------------------------------------------ claims

\* C1: an accessor whose file lacks a key it requires, or holds the key with
\* an empty value, fails with the missing-configuration error (the failed
\* assertion) instead of returning a result.
C1_MissingOrEmptyFails ==
    (Returned /\ env.exists) =>
        \A k \in RequiredKeys(call) :
            (Absent(env, k) \/ HoldsEmpty(env, k)) => ret.kind = "AssertionError"

\* C2: an accessor whose file holds a non-empty value for each key it requires
\* returns a bundle in which the field of each such key equals the source
\* value of the key, one layer of surrounding double quotes removed.
C2_ValuesVerbatim ==
    (Returned /\ \A k \in RequiredKeys(call) : HoldsValue(env, k)) =>
        /\ ret.kind = "ok"
        /\ \A k \in RequiredKeys(call) :
              /\ k \in DOMAIN Bundle(call, ret)
              /\ Bundle(call, ret)[k] = Str(SourceValue(env, k))

\* C3: a dict accessor succeeds exactly when the tuple accessor called with the
\* same flags succeeds, and each of its fields then equals the tuple element
\* it is named after.
C3_DictProjectsTuple ==
    (Returned /\ call.fn \in DictAccessors) =>
        LET t == Apply(TupleCall(call), env, os_environ)
        IN /\ ret.kind = "ok" <=> t.kind = "ok"
           /\ ret.kind = "ok" =>
                 \A k \in DOMAIN Bundle(call, ret) :
                    /\ k \in DOMAIN Bundle(TupleCall(call), t)
                    /\ Bundle(call, ret)[k] = Bundle(TupleCall(call), t)[k]

\* The statement of C4 for the accessor of the call held in the state.
FalseFlagKeyNotRequired ==
    \A i \in 1..Len(FlagKeys(call.fn)) :
        ~call.args[i] =>
            /\ Apply(call, Without(env, FlagKeys(call.fn)[i]), os_environ).kind = ret.kind
            /\ (\A k \in RequiredKeys(call) : HoldsValue(env, k)) => ret.kind = "ok"

\* C4: with an inclusion flag false, success or failure of the accessor does
\* not depend on the presence of the flag's key, and with the other required
\* keys present the call succeeds.
C4_FalseFlagKeyNotRequired == Returned => FalseFlagKeyNotRequired

\* C4 holds of the tuple accessors on their own; it fails through the one
\* dict accessor that takes flags, whose unpacking fails.
C4_TupleAccessors == (Returned /\ call.fn \notin DictAccessors) => FalseFlagKeyNotRequired

\* C5: the bundle an accessor with inclusion flags returns holds the field of
\* an optional key if and only if the flag of the key is true.
C5_FieldIffFlag ==
    (Returned /\ ret.kind = "ok") =>
        \A i \in 1..Len(FlagKeys(call.fn)) :
            FlagKeys(call.fn)[i] \in DOMAIN Bundle(call, ret) <=> call.args[i]

\* C6: no partial results: a call that returns holds a non-empty value in the
\* field of every key it requires.
C6_NoPartialResults ==
    (Returned /\ ret.kind = "ok") =>
        \A k \in RequiredKeys(call) :
            /\ k \in DOMAIN Bundle(call, ret)
            /\ Truthy(Bundle(call, ret)[k])

\* The file gives key k the one line KEY="v", v holding a "=", no other line
\* starts with k, and the other keys of the call hold values.
QuotedLineOf(e, c, k) ==
    /\ e.exists
    /\ Cardinality({i \in 1..Len(SrcLines(e)) : StartsWith(SrcLines(e)[i], k)}) = 1
    /\ ~Absent(e, k)
    /\ LET raw == LineRaw(LastLineOf(e, k))
       IN /\ HasEq(LastLineOf(e, k))
          /\ Len(raw) >= 3 /\ raw[1] = QUOTE /\ raw[Len(raw)] = QUOTE
          /\ \E i \in 2..(Len(raw) - 1) : raw[i] = EQ
    /\ \A k2 \in RequiredKeys(c) \ {k} : HoldsValue(e, k2)

\* C7: a line KEY="v" whose v holds one or more "=" makes the line-scanning
\* accessors return exactly v for the key: only the one surrounding layer of
\* double quotes is removed.
C7_RoundTrip ==
    (Returned /\ call.fn \in LineScanners) =>
        \A k \in RequiredKeys(call) :
            QuotedLineOf(env, call, k) =>
                /\ ret.kind = "ok"
                /\ Bundle(call, ret)[k] = Str(Unquote(LineRaw(LastLineOf(env, k))))

\* C8: an optional key (OPENAI_ORG_ID, WEAVIATE_API_KEY, AZCOSMOS_API) that is
\* absent from the source does not make its accessor fail: with the required
\* key present the accessor returns None in the position of the optional key
\* and the source value in the position of the required key.
C8_OptionalAbsentIsNone ==
    (/\ Returned
     /\ call.fn \in OptionalKeyAccessors
     /\ Absent(env, OptionalKey(call.fn))
     /\ \A k \in RequiredKeys(call) : HoldsValue(env, k)) =>
        /\ ret.kind = "ok"
        /\ Bundle(call, ret)[OptionalKey(call.fn)] = None
        /\ \A k \in RequiredKeys(call) : Bundle(call, ret)[k] = Str(SourceValue(env, k))

\* The example of C8: OPENAI_API_KEY=x1 and no OPENAI_ORG_ID gives ("x1", None).
C8_Witness ==
    /\ Returned
    /\ call.fn = "openai_settings_from_dot_env"
    /\ env = File(OPENAI_API_KEY \o <<EQ, Letter.x, Digit(1), NL>>)
    /\ ret = Ok(<<Str(<<Letter.x, Digit(1)>>), None>>)

\* C9: every failing call ends in the one missing-configuration error, the
\* failed assertion of a required value.
C9_SingleErrorKind == Returned => ret.kind \in {"ok", "AssertionError"}

\* C10: the value the line scan assigns to each of its keys equals the value
\* an exact-key lookup in the parsed key-value mapping gives for the key.
C10_ScanEqualsParser ==
    (Returned /\ call.fn \in LineScanners /\ env.exists) =>
        LET keys == TupleKeys(call.fn)
            scanned == ScanLines(ReadLines(env.text), keys, [i \in 1..Len(keys) |-> None])
        IN \A i \in 1..Len(keys) : scanned[i] = Get(dotenv_values(env, os_environ), keys[i])

====
